---- MODULE Spec2Model ----
(***************************************************************************)
(* Model of the Ex4 test harness (run_tests.py): submission extraction,    *)
(* build, per-test execution and result aggregation.                       *)
(*                                                                         *)
(* File contents are byte sequences.  Optional values are sequences of     *)
(* length 0 (absent) or 1 (present).  Text-mode reads are modelled for a   *)
(* UTF-8 locale with Python's universal-newline translation.               *)
(***************************************************************************)
EXTENDS Integers, Sequences, FiniteSets, TLC

VARIABLES
    args,               \* parsed command line: zip, official, unofficial, category
    pc,                 \* position of main()
    exitCode,           \* process exit code, -1 while main is running
    zipf,               \* the archive named by --zip, as found on disk
    temp_dir,           \* scratch directory: "none", "exists", "removed"
    extracted,          \* archive entries present under the scratch directory
    executable_path,    \* NONE, "local" or "submission"
    build,              \* outcome of the make invocation, NONE before it ends
    outputDir,          \* <analyzer dir>/output: "absent", "dir" or "file"
    proc,               \* external process being waited on: NONE, "make", "java"
    cur,                \* category whose tests are being run
    queue,              \* test files of the current category still to run
    catQueue,           \* categories_to_run still to visit
    passed, failed,     \* counters of the current category loop
    u_passed, u_failed, \* total_passed / total_failed of run_unofficial_tests
    total_passed, total_failed,  \* totals of main
    results,            \* summary printed for the latest category:
                        \* <<category, passed, failed>>, <<>> before it is printed
    nReports,           \* number of category summaries printed
    reported,           \* "Total tests" of the overall summary, -1 if not printed
    tmpOut,             \* /tmp/test_output_<stem>.txt for every stem
    found,              \* input files of the latest category visited:
                        \* <<category, number of files>>
    totalFound,         \* input files discovered in all categories run so far
    seen,               \* categories with input files: official, unofficial
    executed,           \* number of analyzer invocations so far
    testsPassed,        \* number of tests whose verdict was a pass
    builds,             \* number of make invocations so far
    lastTest,           \* the test handled by the latest step of the current loop
    visited,            \* categories whose tests directory was looked up, and
                        \* whether the unofficial directory was there
    expectedSeen,       \* tests found to have an expectation file
    sub,                \* create_submission.py: directory, IDs, archive
    rerun               \* outcomes of repeated run_single_test calls

vars == <<args, pc, exitCode, zipf, temp_dir, extracted, executable_path, build,
          outputDir, proc, cur, queue, catQueue, passed, failed,
          u_passed, u_failed, total_passed, total_failed, results, nReports,
          reported, tmpOut, found, totalFound, seen, executed, testsPassed,
          builds, lastTest, visited, expectedSeen, sub, rerun>>

----------------------------------------------------------------------------
(* Bounds *)

MaxTests   == 2     \* input files per tests directory
MaxLen     == 2     \* bytes per output / expectation file
MaxFound   == 3     \* input files discovered in one run of the harness
Repeats    == 2     \* consecutive runs of one test case
MaxIds     == 2     \* student IDs given on the command line

(* Program constants *)

NONE == "<none>"

CATEGORIES == <<"global", "local", "propagation", "shadow", "if", "while",
                "printint", "expr", "edge", "ok">>

OFFICIAL == "official"

LF  == 10
CR  == 13
LetterA == 97
BadByte == 255      \* never valid in UTF-8

Bytes == {LetterA, LF, CR, BadByte}

RECURSIVE SeqsUpTo(_, _)
SeqsUpTo(S, n) ==
    IF n = 0 THEN { <<>> }
    ELSE LET shorter == SeqsUpTo(S, n - 1)
         IN  shorter \cup { Append(s, b) : s \in shorter, b \in S }

Contents == SeqsUpTo(Bytes, MaxLen)

None == << >>
Some(x) == << x >>
IsSome(o) == Len(o) = 1
Opt(S) == { None } \cup { Some(x) : x \in S }

StemNames == <<"t1", "t2", "t3", "t4">>
Stems == { StemNames[i] : i \in 1..MaxTests }

(* The *.txt files a tests directory may hold *)
TestDirs == { { StemNames[i] : i \in 1..k } : k \in 0..MaxTests }

SeqRange(s) == { s[i] : i \in 1..Len(s) }

(* sorted(tests_dir.glob("*.txt")) for a directory holding the stems in S *)
Sorted(S) ==
    LET idx == { i \in 1..Len(StemNames) : StemNames[i] \in S }
        RECURSIVE Build(_)
        Build(I) == IF I = {} THEN <<>>
                    ELSE LET m == CHOOSE i \in I : \A j \in I : i <= j
                         IN  <<StemNames[m]>> \o Build(I \ {m})
    IN  Build(idx)

(* Python truthiness of an optional string argument *)
Truthy(s) == s \notin {NONE, ""}

----------------------------------------------------------------------------
(* Text-mode read: open(path, 'r').read() *)

RECURSIVE TranslateNewlines(_)
TranslateNewlines(s) ==
    IF s = <<>> THEN <<>>
    ELSE IF Head(s) = CR
         THEN <<LF>> \o TranslateNewlines(
                  IF Len(s) > 1 /\ s[2] = LF THEN Tail(Tail(s)) ELSE Tail(s))
         ELSE <<Head(s)>> \o TranslateNewlines(Tail(s))

ReadText(bytes) ==
    IF BadByte \in SeqRange(bytes)
    THEN [ok |-> FALSE, text |-> <<>>]
    ELSE [ok |-> TRUE, text |-> TranslateNewlines(bytes)]

----------------------------------------------------------------------------
(* run_single_test *)

ExitCodes == {0, 2}

(* What one analyzer invocation does: it exits with a code, is still       *)
(* running when the timeout expires, or cannot be started at all; it may   *)
(* have written the output file before that.                               *)
Behaviours ==
    [kind : {"exit"}, code : ExitCodes, out : Opt(Contents)]
      \cup [kind : {"timeout"}, code : {0}, out : Opt(Contents)]
      \cup [kind : {"spawn_error"}, code : {0}, out : {None}]

NoError == [kind |-> "None", code |-> 0]
Err(k)  == [kind |-> k, code |-> 0]

Verdict(p, e, ro, re, cmp) ==
    [passed |-> p, error |-> e, readOutput |-> ro, readExpected |-> re,
     compared |-> cmp]

(* The output file after the analyzer ran *)
AfterAnalyzer(tmp, stem, beh) ==
    IF IsSome(beh.out) THEN [tmp EXCEPT ![stem] = beh.out] ELSE tmp

(* Lines 233-248: read both files in text mode and compare *)
CompareOutputs(outBytes, expBytes) ==
    LET actual == ReadText(outBytes)
        expected == ReadText(expBytes)
    IN  IF ~actual.ok THEN Verdict(FALSE, Err("Exception"), TRUE, FALSE, FALSE)
        ELSE IF ~expected.ok THEN Verdict(FALSE, Err("Exception"), TRUE, TRUE, FALSE)
        ELSE IF actual.text = expected.text
             THEN Verdict(TRUE, NoError, TRUE, TRUE, TRUE)
             ELSE Verdict(FALSE, Err("Output mismatch"), TRUE, TRUE, TRUE)

(* Faulty variant: an expired timeout is not caught as such; the test goes *)
(* on to the return code and the output file                              *)
JudgeIgnoresTimeout(tmp, stem, expBytes, beh) ==
    IF beh.kind = "spawn_error" THEN Verdict(FALSE, Err("Exception"), FALSE, FALSE, FALSE)
    ELSE IF beh.code # 0
         THEN Verdict(FALSE, [kind |-> "NonZeroExit", code |-> beh.code],
                      FALSE, FALSE, FALSE)
    ELSE IF ~IsSome(tmp[stem])
         THEN Verdict(FALSE, Err("Output file not created"), FALSE, FALSE, FALSE)
    ELSE CompareOutputs(tmp[stem][1], expBytes)

(* Faulty variant: the output is compared before the return code is looked at *)
JudgeCompareFirst(tmp, stem, expBytes, beh) ==
    IF beh.kind = "spawn_error" THEN Verdict(FALSE, Err("Exception"), FALSE, FALSE, FALSE)
    ELSE IF beh.kind = "timeout" THEN Verdict(FALSE, Err("Timeout"), FALSE, FALSE, FALSE)
    ELSE IF ~IsSome(tmp[stem])
         THEN Verdict(FALSE, Err("Output file not created"), FALSE, FALSE, FALSE)
    ELSE LET v == CompareOutputs(tmp[stem][1], expBytes)
         IN  IF beh.code # 0 /\ ~v.passed
             THEN [v EXCEPT !.error = [kind |-> "NonZeroExit", code |-> beh.code]]
             ELSE v

(* Lines 209-253: the try block, on the file system left by the analyzer *)
Judge(tmp, stem, expBytes, beh) ==
    IF beh.kind = "spawn_error" THEN Verdict(FALSE, Err("Exception"), FALSE, FALSE, FALSE)
    ELSE IF beh.kind = "timeout" THEN Verdict(FALSE, Err("Timeout"), FALSE, FALSE, FALSE)
    ELSE IF beh.code # 0
         THEN Verdict(FALSE, [kind |-> "NonZeroExit", code |-> beh.code],
                      FALSE, FALSE, FALSE)
    ELSE IF ~IsSome(tmp[stem])
         THEN Verdict(FALSE, Err("Output file not created"), FALSE, FALSE, FALSE)
    ELSE CompareOutputs(tmp[stem][1], expBytes)

(* Faulty variant: the finally block leaves the output file behind *)
CleanupKeepsFile(tmp, stem) == tmp

(* Lines 254-257: the finally block *)
Cleanup(tmp, stem) ==
    IF IsSome(tmp[stem]) THEN [tmp EXCEPT ![stem] = None] ELSE tmp

(* run_single_test from the moment the analyzer process has ended:         *)
(* the verdict and the /tmp files it leaves                                *)
run_single_test(tmp, stem, expBytes, beh) ==
    LET fs == AfterAnalyzer(tmp, stem, beh)
    IN  [verdict |-> Judge(fs, stem, expBytes, beh),
         tmp     |-> Cleanup(fs, stem)]

----------------------------------------------------------------------------
(* Command line and environment *)

CategoryArgs == {NONE, "global", "bogus"}

Args == [zip : {NONE, "sub.zip"}, official : BOOLEAN, unofficial : BOOLEAN,
         category : CategoryArgs]

(* Archive member names as path components *)
IdsName      == <<"ids.txt">>
MakefileName == <<"ex4", "Makefile">>
ZipNames == {IdsName, MakefileName, <<"ex4", "src", "Main.java">>}

(* fault: where reading the container fails, if anywhere *)
Zips ==
    { [exists |-> FALSE, is_zip |-> FALSE, file_list |-> {}, fault |-> "none"],
      [exists |-> TRUE,  is_zip |-> FALSE, file_list |-> {}, fault |-> "none"] }
      \cup [exists : {TRUE}, is_zip : {TRUE}, file_list : SUBSET ZipNames,
            fault : {"none", "open", "extract"}]

NoZip == [exists |-> FALSE, is_zip |-> FALSE, file_list |-> {}, fault |-> "none"]

(* <analyzer dir>/output before the first test: missing, or in the way as *)
(* a regular file; mkdir(exist_ok=True) makes it a directory               *)
OutputDirStates == {"absent", "file"}

NoBuild == [kind |-> NONE, code |-> 0, artifact |-> FALSE]

BuildOutcomes ==
    [kind : {"exit"}, code : ExitCodes, artifact : BOOLEAN]
      \cup [kind : {"timeout", "spawn_error"}, code : {0}, artifact : BOOLEAN]

NoTest == [cat |-> NONE, stem |-> NONE, expectedExists |-> FALSE,
           invoked |-> FALSE, timedOut |-> FALSE, done |-> FALSE,
           passed |-> FALSE, error |-> NoError]

(* Output and expectation files met in the test suites: "a\n", "a\r\n"   *)
(* and a file that is not valid UTF-8                                     *)
FixtureContents == { <<LetterA, LF>>, <<LetterA, CR, LF>>, <<BadByte>> }

FixtureBehaviours ==
    { b \in [kind : {"exit", "timeout", "spawn_error"}, code : ExitCodes,
             out : Opt(FixtureContents)] :
        /\ b.kind # "exit" => b.code = 0
        /\ b.kind = "spawn_error" => b.out = None }

NoBehaviour == [kind |-> NONE, code |-> 0, out |-> None]

NoRerun == [stem |-> NONE, expected |-> <<>>, beh |-> NoBehaviour,
            outcomes |-> <<>>]

NoVisit == [cats |-> {}, unofficial_dir |-> NONE]

NoSub == [pc |-> NONE]

(* Faulty variant: a named category does not switch the official tests off *)
RunOfficialIgnoresCategory(a) == (~a.unofficial) \/ a.official

RunOfficial(a)   == IF Truthy(a.category) THEN FALSE
                    ELSE (~a.unofficial) \/ a.official
RunUnofficial(a) == IF Truthy(a.category) THEN TRUE
                    ELSE (~a.official) \/ a.unofficial

Init ==
    /\ args \in Args
    /\ zipf \in (IF Truthy(args.zip) THEN Zips ELSE {NoZip})
    /\ pc = "start"
    /\ exitCode = -1
    /\ temp_dir = "none"
    /\ extracted = {}
    /\ executable_path = NONE
    /\ build = NoBuild
    /\ outputDir = "absent"
    /\ proc = NONE
    /\ cur = NONE
    /\ queue = <<>>
    /\ catQueue = <<>>
    /\ passed = 0 /\ failed = 0
    /\ u_passed = 0 /\ u_failed = 0
    /\ total_passed = 0 /\ total_failed = 0
    /\ results = <<>>
    /\ nReports = 0
    /\ reported = -1
    /\ tmpOut = [s \in Stems |-> None]
    /\ found = <<>>
    /\ totalFound = 0
    /\ seen = [official |-> 0, unofficial |-> 0]
    /\ executed = 0
    /\ testsPassed = 0
    /\ builds = 0
    /\ lastTest = NoTest
    /\ visited = NoVisit
    /\ expectedSeen = 0
    /\ sub = NoSub
    /\ rerun = NoRerun

----------------------------------------------------------------------------
(* main: leaving the function *)

(* Faulty variant: the scratch directory is never cleaned up *)
MainFinallyLeaks(td) == td

(* Lines 461-464 *)
MainFinally(td) == IF td = "exists" THEN "removed" ELSE td

(* return <code> from inside the try block *)
Return(code) ==
    /\ exitCode' = code
    /\ temp_dir' = MainFinally(temp_dir)
    /\ pc' = "done"

(* an exception leaving main: the interpreter exits with status 1 *)
Raise ==
    /\ exitCode' = 1
    /\ temp_dir' = MainFinally(temp_dir)
    /\ pc' = "raised"

(* Faulty variant: the summary always reports success *)
ExitStatusAlwaysZero(nfailed) == 0

(* Line 459 *)
ExitStatus(nfailed) == IF nfailed = 0 THEN 0 ELSE 1

----------------------------------------------------------------------------
(* extract_submission_zip *)

StartsWithEx4(name) == Len(name) > 1 /\ name[1] = "ex4"

(* Faulty variant: the manifest check is skipped *)
HasIdsUnchecked(file_list) == TRUE

(* Line 105 *)
HasIds(file_list) == IdsName \in file_list

(* Faulty variant: the Makefile check is skipped *)
HasMakefileUnchecked(file_list) == TRUE

(* Line 114 *)
HasMakefile(file_list) == MakefileName \in file_list

(* part: the entries written before a failing extractall gave up *)
extract_submission_zip(z, part) ==
    IF ~z.exists THEN [ok |-> FALSE, extracted |-> {}]
    ELSE IF ~z.is_zip THEN [ok |-> FALSE, extracted |-> {}]
    ELSE IF z.fault = "open" THEN [ok |-> FALSE, extracted |-> {}]
    ELSE IF ~HasIds(z.file_list) THEN [ok |-> FALSE, extracted |-> {}]
    ELSE IF { f \in z.file_list : StartsWithEx4(f) } = {}
         THEN [ok |-> FALSE, extracted |-> {}]
    ELSE IF ~HasMakefile(z.file_list) THEN [ok |-> FALSE, extracted |-> {}]
    ELSE IF z.fault = "extract" THEN [ok |-> FALSE, extracted |-> part]
    ELSE IF IdsName \notin z.file_list THEN [ok |-> FALSE, extracted |-> z.file_list]
    ELSE [ok |-> TRUE, extracted |-> z.file_list]

(* Faulty variant: a zero exit code is trusted without looking for the artifact *)
build_result_trusts_exit(b) ==
    IF b.kind # "exit" THEN NONE
    ELSE IF b.code # 0 THEN NONE
    ELSE "submission"

(* build_analyzer_from_submission, lines 168-192: the returned path *)
build_result(b) ==
    IF b.kind # "exit" THEN NONE
    ELSE IF b.code # 0 THEN NONE
    ELSE IF ~b.artifact THEN NONE
    ELSE "submission"

----------------------------------------------------------------------------
(* main *)

envVars   == <<args, zipf, rerun, sub>>
loopVars  == <<cur, queue, passed, failed, lastTest>>
discVars  == <<found, totalFound, seen>>
sumVars   == <<u_passed, u_failed, total_passed, total_failed, results,
               nReports, reported, discVars, catQueue>>
buildVars == <<extracted, executable_path, build, builds>>
procVars  == <<outputDir, proc, tmpOut, executed, testsPassed>>

(* Lines 393-422: scratch directory in zip mode, local analyzer otherwise *)
MainBegin ==
    /\ pc = "start"
    /\ IF Truthy(args.zip)
       THEN /\ temp_dir' = "exists"
            /\ pc' = "extract"
            /\ UNCHANGED <<exitCode, executable_path, outputDir>>
       ELSE \E present \in BOOLEAN, od \in OutputDirStates :
              IF ~present
              THEN Return(1) /\ UNCHANGED <<executable_path, outputDir>>
              ELSE /\ executable_path' = "local"
                   /\ outputDir' = od
                   /\ pc' = "select"
                   /\ UNCHANGED <<exitCode, temp_dir>>
    /\ UNCHANGED <<envVars, visited, expectedSeen, loopVars, sumVars, extracted, build, builds,
                   proc, tmpOut, executed, testsPassed>>

(* What a failing extractall may have written already *)
Parts(z) == IF z.fault = "extract" THEN SUBSET z.file_list ELSE { {} }

(* Lines 405-408 *)
Extract ==
    /\ pc = "extract"
    /\ \E part \in Parts(zipf) :
         LET r == extract_submission_zip(zipf, part)
         IN  /\ extracted' = r.extracted
             /\ IF r.ok
                THEN pc' = "build" /\ UNCHANGED <<exitCode, temp_dir>>
                ELSE Return(1)
    /\ UNCHANGED <<envVars, visited, expectedSeen, loopVars, sumVars, executable_path, build, builds,
                   procVars>>

(* Lines 149-166: Makefile check, then make is started *)
StartBuild ==
    /\ pc = "build"
    /\ IF MakefileName \notin extracted
       THEN Return(1) /\ UNCHANGED <<proc, builds>>
       ELSE /\ proc' = "make"
            /\ builds' = builds + 1
            /\ pc' = "building"
            /\ UNCHANGED <<exitCode, temp_dir>>
    /\ UNCHANGED <<envVars, visited, expectedSeen, loopVars, sumVars, extracted, executable_path,
                   build, outputDir, tmpOut, executed, testsPassed>>

(* Lines 168-192 and 411-413: make has ended or its timeout expired *)
FinishBuild ==
    /\ pc = "building"
    /\ \E b \in BuildOutcomes, od \in OutputDirStates :
         /\ build' = b
         /\ executable_path' = build_result(b)
         /\ outputDir' = od
         /\ IF build_result(b) = NONE
            THEN Return(1)
            ELSE pc' = "select" /\ UNCHANGED <<exitCode, temp_dir>>
    /\ proc' = NONE
    /\ UNCHANGED <<envVars, visited, expectedSeen, loopVars, sumVars, extracted, builds, tmpOut,
                   executed, testsPassed>>

AfterOfficial == IF RunUnofficial(args) THEN "unofficial" ELSE "summary"

(* Lines 424-438 *)
Select ==
    /\ pc = "select"
    /\ IF Truthy(args.category) /\ args.category \notin SeqRange(CATEGORIES)
       THEN Return(1)
       ELSE /\ pc' = IF RunOfficial(args) THEN "official" ELSE AfterOfficial
            /\ UNCHANGED <<exitCode, temp_dir>>
    /\ UNCHANGED <<envVars, visited, expectedSeen, loopVars, sumVars, buildVars, procVars>>

(* Lines 450-459 *)
Summary ==
    /\ pc = "summary"
    /\ reported' = total_passed + total_failed
    /\ Return(ExitStatus(total_failed))
    /\ UNCHANGED <<envVars, visited, expectedSeen, loopVars, buildVars, procVars, u_passed, u_failed,
                   total_passed, total_failed, results, nReports, discVars,
                   catQueue>>

----------------------------------------------------------------------------
(* The test loops of run_official_tests and run_unofficial_tests *)

MissingError == Err("Expected output file missing")

(* Faulty variant: a test without expectation file is skipped without counting *)
CountMissingSkipped(n) == n

(* Lines 285 / 347: failed += 1 for a missing expectation file *)
CountMissing(n) == n + 1

(* Faulty variant: a category's counts are not added to the totals *)
AddCountsDropped(total, n) == total

(* Lines 363-364, 442-443, 447-448: total += count *)
AddCounts(total, n) == total + n

(* Lines 283-287 / 345-349 *)
LoopMissing(loopPc) ==
    /\ pc = loopPc
    /\ queue # <<>>
    /\ failed' = CountMissing(failed)
    /\ queue' = Tail(queue)
    /\ lastTest' = [cat |-> cur, stem |-> Head(queue), expectedExists |-> FALSE,
                    invoked |-> FALSE, timedOut |-> FALSE, done |-> TRUE,
                    passed |-> FALSE, error |-> MissingError]
    /\ UNCHANGED <<envVars, visited, expectedSeen, sumVars, buildVars, procVars, cur, passed, pc,
                   exitCode, temp_dir>>

(* Lines 289-290 / 351-352 with 202-218: the expectation file exists, the  *)
(* output directory is made and the analyzer is started                    *)
LoopStart(loopPc, waitPc) ==
    /\ pc = loopPc
    /\ queue # <<>>
    /\ expectedSeen' = expectedSeen + 1
    /\ IF outputDir = "file"
       THEN /\ Raise
            /\ lastTest' = [NoTest EXCEPT !.cat = cur, !.stem = Head(queue),
                                          !.expectedExists = TRUE]
            /\ UNCHANGED <<outputDir, proc, executed>>
       ELSE /\ outputDir' = "dir"
            /\ proc' = "java"
            /\ executed' = executed + 1
            /\ pc' = waitPc
            /\ lastTest' = [NoTest EXCEPT !.cat = cur, !.stem = Head(queue),
                                          !.expectedExists = TRUE,
                                          !.invoked = TRUE]
            /\ UNCHANGED <<exitCode, temp_dir>>
    /\ UNCHANGED <<envVars, visited, sumVars, buildVars, tmpOut, cur, queue, passed,
                   failed, testsPassed>>

(* Lines 220-257 and 292-298 / 354-360: the analyzer has ended or timed    *)
(* out; the verdict is counted                                             *)
LoopFinish(loopPc, waitPc) ==
    /\ pc = waitPc
    /\ \E beh \in FixtureBehaviours, exp \in FixtureContents :
         LET r == run_single_test(tmpOut, Head(queue), exp, beh)
         IN  /\ tmpOut' = r.tmp
             /\ lastTest' = [lastTest EXCEPT !.done = TRUE,
                                             !.timedOut = (beh.kind = "timeout"),
                                             !.passed = r.verdict.passed,
                                             !.error = r.verdict.error]
             /\ IF r.verdict.passed
                THEN passed' = passed + 1 /\ UNCHANGED failed
                ELSE failed' = failed + 1 /\ UNCHANGED passed
             /\ testsPassed' = testsPassed + (IF r.verdict.passed THEN 1 ELSE 0)
    /\ proc' = NONE
    /\ queue' = Tail(queue)
    /\ pc' = loopPc
    /\ UNCHANGED <<envVars, visited, expectedSeen, sumVars, buildVars, outputDir, executed, cur,
                   exitCode, temp_dir>>

(* run_official_tests, lines 264-278 *)
OfficialBegin ==
    /\ pc = "official"
    /\ visited' = [visited EXCEPT !.cats = @ \cup {OFFICIAL}]
    /\ \E dirExists \in BOOLEAN, S \in TestDirs :
         IF ~dirExists \/ S = {}
         THEN /\ pc' = AfterOfficial
              /\ UNCHANGED <<cur, queue, passed, failed, discVars, results>>
         ELSE /\ totalFound + Cardinality(S) <= MaxFound
              /\ cur' = OFFICIAL
              /\ queue' = Sorted(S)
              /\ passed' = 0 /\ failed' = 0
              /\ found' = <<OFFICIAL, Cardinality(S)>>
              /\ totalFound' = totalFound + Cardinality(S)
              /\ seen' = [seen EXCEPT !.official = 1]
              /\ results' = <<>>
              /\ pc' = "official_loop"
    /\ UNCHANGED <<envVars, expectedSeen, buildVars, procVars, lastTest, u_passed, u_failed,
                   total_passed, total_failed, nReports, reported, catQueue,
                   exitCode, temp_dir>>

OfficialMissing == LoopMissing("official_loop")
OfficialStart   == LoopStart("official_loop", "official_wait")
OfficialFinish  == LoopFinish("official_loop", "official_wait")

(* Lines 300-306 and 441-443 *)
OfficialEnd ==
    /\ pc = "official_loop"
    /\ queue = <<>>
    /\ results' = <<OFFICIAL, passed, failed>>
    /\ nReports' = nReports + 1
    /\ total_passed' = AddCounts(total_passed, passed)
    /\ total_failed' = AddCounts(total_failed, failed)
    /\ pc' = AfterOfficial
    /\ lastTest' = NoTest
    /\ UNCHANGED <<envVars, visited, expectedSeen, cur, queue, passed, failed, buildVars, procVars,
                   u_passed, u_failed, reported, discVars, catQueue, exitCode,
                   temp_dir>>

CategoriesToRun(a) ==
    IF Truthy(a.category) THEN <<a.category>> ELSE CATEGORIES

(* run_unofficial_tests, lines 311-321 *)
UnofficialBegin ==
    /\ pc = "unofficial"
    /\ \E dirExists \in BOOLEAN :
         IF ~dirExists
         THEN /\ pc' = "summary"
              /\ visited' = [visited EXCEPT !.unofficial_dir = "absent"]
              /\ UNCHANGED <<catQueue, u_passed, u_failed>>
         ELSE /\ catQueue' = CategoriesToRun(args)
              /\ visited' = [visited EXCEPT !.unofficial_dir = "present"]
              /\ u_passed' = 0 /\ u_failed' = 0
              /\ pc' = "category"
    /\ UNCHANGED <<envVars, expectedSeen, loopVars, buildVars, procVars, total_passed,
                   total_failed, results, nReports, reported, discVars,
                   exitCode, temp_dir>>

(* Lines 323-340 *)
CategoryBegin ==
    /\ pc = "category"
    /\ catQueue # <<>>
    /\ cur' = Head(catQueue)
    /\ visited' = [visited EXCEPT !.cats = @ \cup {Head(catQueue)}]
    /\ \E dirExists \in BOOLEAN, S \in TestDirs :
         IF ~dirExists \/ S = {}
         THEN /\ catQueue' = Tail(catQueue)
              /\ found' = <<Head(catQueue), 0>>
              /\ results' = <<>>
              /\ UNCHANGED <<queue, passed, failed, totalFound, seen, pc>>
         ELSE /\ totalFound + Cardinality(S) <= MaxFound
              /\ queue' = Sorted(S)
              /\ passed' = 0 /\ failed' = 0
              /\ found' = <<Head(catQueue), Cardinality(S)>>
              /\ totalFound' = totalFound + Cardinality(S)
              /\ seen' = [seen EXCEPT !.unofficial = @ + 1]
              /\ results' = <<>>
              /\ pc' = "category_loop"
              /\ UNCHANGED catQueue
    /\ UNCHANGED <<envVars, expectedSeen, buildVars, procVars, lastTest, u_passed, u_failed,
                   total_passed, total_failed, nReports, reported,
                   exitCode, temp_dir>>

CategoryMissing == LoopMissing("category_loop")
CategoryStart   == LoopStart("category_loop", "category_wait")
CategoryFinish  == LoopFinish("category_loop", "category_wait")

(* Lines 362-366 *)
CategoryEnd ==
    /\ pc = "category_loop"
    /\ queue = <<>>
    /\ results' = <<cur, passed, failed>>
    /\ nReports' = nReports + 1
    /\ u_passed' = AddCounts(u_passed, passed)
    /\ u_failed' = AddCounts(u_failed, failed)
    /\ catQueue' = Tail(catQueue)
    /\ pc' = "category"
    /\ lastTest' = NoTest
    /\ UNCHANGED <<envVars, visited, expectedSeen, cur, queue, passed, failed, buildVars, procVars,
                   total_passed, total_failed, reported, discVars, exitCode,
                   temp_dir>>

(* Lines 368-381 and 446-448 *)
UnofficialEnd ==
    /\ pc = "category"
    /\ catQueue = <<>>
    /\ total_passed' = AddCounts(total_passed, u_passed)
    /\ total_failed' = AddCounts(total_failed, u_failed)
    /\ pc' = "summary"
    /\ UNCHANGED <<envVars, visited, expectedSeen, loopVars, buildVars, procVars, u_passed, u_failed,
                   results, nReports, reported, discVars, catQueue, exitCode,
                   temp_dir>>

Next ==
    \/ MainBegin \/ Extract \/ StartBuild \/ FinishBuild \/ Select
    \/ OfficialBegin \/ OfficialMissing \/ OfficialStart \/ OfficialFinish
    \/ OfficialEnd
    \/ UnofficialBegin \/ CategoryBegin \/ CategoryMissing \/ CategoryStart
    \/ CategoryFinish \/ CategoryEnd \/ UnofficialEnd
    \/ Summary

Spec == Init /\ [][Next]_vars

(* main is one sequential thread: a step that is possible is taken. The    *)
(* only blocking steps are the two subprocess.run calls, whose timeout=60  *)
(* (line 165) and timeout=10 (line 217) end the wait: on expiry the child  *)
(* is killed and reaped and TimeoutExpired is raised                       *)
SpecLive == Spec /\ WF_vars(Next)

----------------------------------------------------------------------------
(* run_single_test on its own: one test case, one deterministic analyzer   *)
(* and one expectation file, run Repeats times in a row                    *)

InitRunner ==
    /\ args = [zip |-> NONE, official |-> FALSE, unofficial |-> FALSE,
               category |-> NONE]
    /\ zipf = NoZip
    /\ pc = "runner"
    /\ exitCode = -1
    /\ temp_dir = "none"
    /\ extracted = {}
    /\ executable_path = "local"
    /\ build = NoBuild
    /\ outputDir \in {"absent", "dir"}
    /\ proc = NONE
    /\ cur = NONE
    /\ queue = <<>>
    /\ catQueue = <<>>
    /\ passed = 0 /\ failed = 0
    /\ u_passed = 0 /\ u_failed = 0
    /\ total_passed = 0 /\ total_failed = 0
    /\ results = <<>>
    /\ nReports = 0
    /\ reported = -1
    /\ tmpOut = [s \in Stems |-> None]
    /\ found = <<>>
    /\ totalFound = 0
    /\ seen = [official |-> 0, unofficial |-> 0]
    /\ executed = 0
    /\ testsPassed = 0
    /\ builds = 0
    /\ lastTest = NoTest
    /\ visited = NoVisit
    /\ expectedSeen = 0
    /\ sub = NoSub
    /\ rerun \in [stem : Stems, expected : Contents, beh : Behaviours,
                   outcomes : { <<>> }]

(* Lines 195-257: one complete call of run_single_test *)
RunTestAgain ==
    /\ pc = "runner"
    /\ Len(rerun.outcomes) < Repeats
    /\ outputDir' = "dir"
    /\ executed' = executed + 1
    /\ LET r == run_single_test(tmpOut, rerun.stem, rerun.expected, rerun.beh)
       IN  /\ tmpOut' = r.tmp
           /\ rerun' = [rerun EXCEPT !.outcomes = Append(@, r.verdict)]
    /\ UNCHANGED <<args, zipf, pc, exitCode, temp_dir, loopVars, sumVars,
                   buildVars, proc, testsPassed, visited, expectedSeen, sub>>

NextRunner == RunTestAgain

SpecRunner == InitRunner /\ [][NextRunner]_vars

----------------------------------------------------------------------------
(* create_submission.py: the ex4 directory and the student IDs given to it *)

(* Student IDs as typed, character by character: "7", " 7" and "x" *)
IdFixtures == { <<"7">>, <<" ", "7">>, <<"x">> }
IdLists == SeqsUpTo(IdFixtures, MaxIds)

(* str.strip() *)
RECURSIVE Strip(_)
Strip(s) ==
    IF s = <<>> THEN s
    ELSE IF Head(s) = " " THEN Strip(Tail(s))
    ELSE IF s[Len(s)] = " " THEN Strip(SubSeq(s, 1, Len(s) - 1))
    ELSE s

(* str.isdigit() *)
IsDigit(s) == s # <<>> /\ \A i \in 1..Len(s) : s[i] = "7"

(* Lines 62-73 *)
validate_student_ids(ids) ==
    SelectSeq([i \in 1..Len(ids) |-> Strip(ids[i])], IsDigit)

(* Entries an ex4 directory may hold, relative to it *)
Paths == { <<"Makefile">>, <<"Makefile", "rules.mk">>,
           <<"src">>, <<"src", "Main.java">>, <<"src", "Main.class">>,
           <<"main.c">>, <<"manifest">> }

Kinds == {"absent", "file", "dir", "fifo"}

(* The part of a file name from its last dot on *)
Ext(name) ==
    CASE name = "Main.java"  -> ".java"
      [] name = "Main.class" -> ".class"
      [] name = "main.c"     -> ".c"
      [] name = "rules.mk"   -> ".mk"
      [] OTHER               -> ""

(* A child exists only inside a directory; anything may be in the place of *)
(* the Makefile                                                            *)
Trees ==
    { t \in [Paths -> Kinds] :
        /\ \A p \in Paths : Len(p) = 2 =>
              /\ t[p] \in {"absent", "file"}
              /\ t[p] # "absent" => t[<<p[1]>>] = "dir"
        /\ t[<<"src">>] \in {"absent", "dir"}
        /\ t[<<"main.c">>] \in {"absent", "file"}
        /\ t[<<"manifest">>] \in {"absent", "file"} }

EmptyTree == [p \in Paths |-> "absent"]

Ex4Dirs ==
    { [exists |-> FALSE, is_dir |-> FALSE, tree |-> EmptyTree],
      [exists |-> TRUE,  is_dir |-> FALSE, tree |-> EmptyTree] }
      \cup [exists : {TRUE}, is_dir : {TRUE}, tree : Trees]

(* Lines 97-104 *)
REQUIRED_PATHS == <<"Makefile", "manifest", "jflex", "cup", "external_jars", "src">>

(* Lines 107-112: <<"*", e>> is a star followed by the extension e *)
IGNORE_PATTERNS ==
    << <<"*", ".class">>, <<"*", ".o">>, <<"*", ".so">>, <<"*", ".a">>,
       <<"__pycache__">>, <<".git">>, <<".gitignore">>,
       <<"*", ".swp">>, <<"*", ".swo">>, <<".DS_Store">>, <<"ANALYZER">> >>

(* fnmatch of one name against one pattern *)
Matches(name, pat) ==
    IF Len(pat) = 2 THEN Ext(name) = pat[2] ELSE name = pat[1]

(* Line 138: the ignore callback of copytree *)
Ignored(name) == \E i \in 1..Len(IGNORE_PATTERNS) : Matches(name, IGNORE_PATTERNS[i])

(* Lines 158-161: the four recursive globs *)
SourceFiles(t) ==
    { p \in Paths : t[p] # "absent" /\ Ext(p[Len(p)]) \in {".java", ".py", ".cpp", ".c"} }

(* Lines 141-169; response is the stripped, lower-cased answer to the prompt *)
validate_ex4_directory(d, response) ==
    IF ~d.exists THEN FALSE
    ELSE IF ~d.is_dir THEN FALSE
    ELSE IF d.tree[<<"Makefile">>] = "absent" THEN FALSE
    ELSE IF SourceFiles(d.tree) = {} /\ response # "y" THEN FALSE
    ELSE TRUE

(* Lines 115-138: the staging copy of the tree t *)
copy_required_files(t) ==
    LET top(p) == IF p[1] \notin SeqRange(REQUIRED_PATHS) THEN "absent"
                  ELSE IF t[<<p[1]>>] = "absent" THEN "absent"
                  ELSE IF t[<<p[1]>>] = "file" THEN "file"
                  ELSE IF t[<<p[1]>>] = "dir" THEN "dir"
                  ELSE "absent"
    IN  [p \in Paths |->
            IF Len(p) = 1 THEN top(p)
            ELSE IF top(p) = "dir" /\ ~Ignored(p[2]) THEN t[p]
            ELSE "absent"]

(* Lines 172-231: the member names of the archive written *)
create_submission_zip(d, student_ids) ==
    IF student_ids = <<>> THEN [raised |-> TRUE, namelist |-> {}]
    ELSE LET staged == copy_required_files(d.tree)
         IN  [raised |-> FALSE,
              namelist |-> {IdsName} \cup
                           { <<"ex4">> \o p : p \in { q \in Paths : staged[q] = "file" } }]

(* Lines 234-269 *)
verify_zip_contents(file_list) ==
    IF IdsName \notin file_list THEN FALSE
    ELSE IF { f \in file_list : StartsWithEx4(f) } = {} THEN FALSE
    ELSE IF MakefileName \notin file_list THEN FALSE
    ELSE TRUE

(* The archive as the test harness finds it *)
ZipOf(file_list) ==
    [exists |-> TRUE, is_zip |-> TRUE, file_list |-> file_list, fault |-> "none"]

----------------------------------------------------------------------------
(* create_submission.main, followed by the test harness opening the archive *)

harnessVars == <<args, zipf, rerun, pc, exitCode, temp_dir, loopVars, sumVars,
                 buildVars, procVars, visited, expectedSeen>>

InitSubmit ==
    /\ args = [zip |-> NONE, official |-> FALSE, unofficial |-> FALSE,
               category |-> NONE]
    /\ zipf = NoZip
    /\ pc = "submitter"
    /\ exitCode = -1
    /\ temp_dir = "none"
    /\ extracted = {}
    /\ executable_path = NONE
    /\ build = NoBuild
    /\ outputDir = "absent"
    /\ proc = NONE
    /\ cur = NONE
    /\ queue = <<>>
    /\ catQueue = <<>>
    /\ passed = 0 /\ failed = 0
    /\ u_passed = 0 /\ u_failed = 0
    /\ total_passed = 0 /\ total_failed = 0
    /\ results = <<>>
    /\ nReports = 0
    /\ reported = -1
    /\ tmpOut = [s \in Stems |-> None]
    /\ found = <<>>
    /\ totalFound = 0
    /\ seen = [official |-> 0, unofficial |-> 0]
    /\ executed = 0
    /\ testsPassed = 0
    /\ builds = 0
    /\ lastTest = NoTest
    /\ visited = NoVisit
    /\ expectedSeen = 0
    /\ rerun = NoRerun
    /\ sub \in [pc : {"validate"}, ex4 : Ex4Dirs, ids : IdLists,
                response : {"y", "n"}, overwrite : {NONE, "y", "n"},
                student_ids : { <<>> }, zip : {None},
                verified : {NONE}, harness : {NONE}, ret : {-1}]

SubReturn(code) == [sub EXCEPT !.pc = "done", !.ret = code]

(* Lines 311-317 *)
SubValidate ==
    /\ pc = "submitter" /\ sub.pc = "validate"
    /\ sub' = IF validate_ex4_directory(sub.ex4, sub.response)
              THEN [sub EXCEPT !.pc = "ids"]
              ELSE SubReturn(1)
    /\ UNCHANGED harnessVars

(* Lines 319-336 *)
SubIds ==
    /\ pc = "submitter" /\ sub.pc = "ids"
    /\ LET valid == validate_student_ids(sub.ids)
       IN  sub' = IF valid = <<>> THEN SubReturn(1)
                  ELSE [sub EXCEPT !.pc = "overwrite", !.student_ids = valid]
    /\ UNCHANGED harnessVars

(* Lines 338-349: overwrite is the answer to the prompt, NONE without one *)
SubOverwrite ==
    /\ pc = "submitter" /\ sub.pc = "overwrite"
    /\ sub' = IF sub.overwrite # NONE /\ sub.overwrite # "y"
              THEN SubReturn(0)
              ELSE [sub EXCEPT !.pc = "create"]
    /\ UNCHANGED harnessVars

(* Lines 351-356 *)
SubCreate ==
    /\ pc = "submitter" /\ sub.pc = "create"
    /\ LET r == create_submission_zip(sub.ex4, sub.student_ids)
       IN  sub' = IF r.raised THEN SubReturn(1)
                  ELSE [sub EXCEPT !.pc = "verify", !.zip = Some(r.namelist)]
    /\ UNCHANGED harnessVars

(* Lines 358-372 *)
SubVerify ==
    /\ pc = "submitter" /\ sub.pc = "verify"
    /\ sub' = IF verify_zip_contents(sub.zip[1])
              THEN [SubReturn(0) EXCEPT !.verified = "yes"]
              ELSE [SubReturn(1) EXCEPT !.verified = "no"]
    /\ UNCHANGED harnessVars

(* run_tests.py lines 89-118 on the archive written *)
HarnessOpens ==
    /\ pc = "submitter" /\ IsSome(sub.zip) /\ sub.harness = NONE
    /\ sub' = [sub EXCEPT !.harness =
                  IF extract_submission_zip(ZipOf(sub.zip[1]), {}).ok
                  THEN "yes" ELSE "no"]
    /\ UNCHANGED harnessVars

NextSubmit ==
    \/ SubValidate \/ SubIds \/ SubOverwrite \/ SubCreate \/ SubVerify
    \/ HarnessOpens

SpecSubmit == InitSubmit /\ [][NextSubmit]_vars

----------------------------------------------------------------------------
TypeOK == pc \in {"start", "extract", "build", "building", "select", "official",
                  "official_loop", "official_wait", "unofficial", "category",
                  "category_loop", "category_wait", "summary", "done", "raised",
                  "runner", "submitter"}
----------------------------------------------------------------------------
(* Properties *)

Finished == pc \in {"done", "raised"}

AllDiscoveredPassed == testsPassed = totalFound

CategoryValid == Truthy(args.category) => args.category \in SeqRange(CATEGORIES)

ZipMode == Truthy(args.zip)

StructureOK ==
    /\ zipf.exists /\ zipf.is_zip
    /\ IdsName \in zipf.file_list
    /\ MakefileName \in zipf.file_list

BuildOK == build.kind = "exit" /\ build.code = 0 /\ build.artifact

(* C1 as stated: when main has ended, the exit code is 0 exactly if an     *)
(* analyzer was obtained (validation and build in zip mode, the local      *)
(* ANALYZER otherwise) and every discovered test in scope passed.          *)
C1_AsStated ==
    Finished =>
        (exitCode = 0 <=> (executable_path # NONE /\ AllDiscoveredPassed))

(* C1 amended: when main has ended, the exit code is 0 exactly if an       *)
(* analyzer was obtained, the --category argument (if given) names one of  *)
(* CATEGORIES, and every discovered test in scope passed; otherwise it is  *)
(* nonzero.                                                                *)
C1_ExitCode ==
    Finished =>
        /\ exitCode = 0 <=>
              (executable_path # NONE /\ CategoryValid /\ AllDiscoveredPassed)
        /\ exitCode \in {0, 1}

C1_Witness ==
    /\ pc = "done" /\ exitCode = 0 /\ ZipMode /\ testsPassed >= 2

(* C2: for every test whose analyzer exited with code 0 and produced an    *)
(* output file, the verdict is a pass exactly if the bytes of the output   *)
(* file equal the bytes of the expectation file, and every other verdict   *)
(* is an output mismatch.                                                  *)
C2_ExactMatch ==
    \A i \in 1..Len(rerun.outcomes) :
        (rerun.beh.kind = "exit" /\ rerun.beh.code = 0 /\ IsSome(rerun.beh.out)) =>
            /\ rerun.outcomes[i].passed <=> (rerun.beh.out[1] = rerun.expected)
            /\ ~rerun.outcomes[i].passed =>
                   rerun.outcomes[i].error.kind = "Output mismatch"

(* C3: every category summary counts exactly the input files discovered   *)
(* in that category, every category with discovered files is reported once *)
(* by the time of the overall summary, and the overall total equals the    *)
(* number of input files discovered in all run categories.                 *)
C3_CountsMatchDiscovery ==
    /\ results # <<>> =>
          /\ found # <<>>
          /\ results[1] = found[1]
          /\ results[2] + results[3] = found[2]
    /\ reported # -1 =>
          /\ reported = totalFound
          /\ nReports = seen.official + seen.unofficial

C3_Witness ==
    /\ reported >= 3 /\ nReports >= 2
    /\ results # <<>> /\ results[2] >= 1 /\ results[3] >= 1

(* C4: a loop step that handles an input file whose expectation file is    *)
(* absent records the failure with the reason "Expected output file        *)
(* missing", adds exactly one to failed, leaves passed alone, starts no    *)
(* analyzer and moves on to the next file.                                 *)
C4_MissingExpectedCounted ==
    [][ (queue # <<>> /\ queue' = Tail(queue) /\ ~lastTest'.expectedExists) =>
            /\ failed' = failed + 1
            /\ passed' = passed
            /\ lastTest'.stem = Head(queue)
            /\ lastTest'.cat = cur
            /\ ~lastTest'.passed
            /\ lastTest'.error = MissingError
            /\ executed' = executed ]_vars

C4_Witness ==
    /\ lastTest.done /\ ~lastTest.expectedExists /\ failed >= 1
    /\ lastTest.error = MissingError

(* C5: in zip mode an analyzer is only ever started after the archive      *)
(* passed the structural checks and make exited with 0 in time and the     *)
(* ANALYZER file exists; after any other build outcome main has returned   *)
(* a nonzero code without running a test.                                  *)
C5_NoTestWithoutBuild ==
    /\ (ZipMode /\ (executed > 0 \/ proc = "java")) => (StructureOK /\ BuildOK)
    /\ (ZipMode /\ build # NoBuild /\ ~BuildOK) =>
           (pc = "done" /\ exitCode # 0 /\ executed = 0 /\ totalFound = 0)

C5_Witness == ZipMode /\ executed > 0 /\ BuildOK

C5_WitnessNoArtifact ==
    ZipMode /\ build.kind = "exit" /\ build.code = 0 /\ ~build.artifact
        /\ pc = "done"

(* C6 as stated: for a zip archive without ids.txt at its root no scratch  *)
(* directory is ever created.                                              *)
C6_AsStated ==
    (ZipMode /\ zipf.is_zip /\ IdsName \notin zipf.file_list) =>
        temp_dir = "none"

(* C6 amended: for a zip archive without ids.txt at its root the scratch   *)
(* directory that main creates never receives an extracted entry, no build *)
(* and no test is started, and the directory has been removed when main    *)
(* has returned.                                                           *)
C6_ScratchStaysEmpty ==
    (ZipMode /\ zipf.is_zip /\ IdsName \notin zipf.file_list) =>
        /\ extracted = {}
        /\ builds = 0 /\ executed = 0
        /\ Finished => (temp_dir = "removed" /\ exitCode = 1)

C6_Witness ==
    /\ ZipMode /\ zipf.is_zip /\ IdsName \notin zipf.file_list
    /\ MakefileName \in zipf.file_list
    /\ pc = "done" /\ temp_dir = "removed"

(* C7: entries are extracted only from an existing zip container whose     *)
(* listing holds ids.txt at the root and ex4/Makefile; in every other case *)
(* extract_submission_zip has returned (None, None), so main returned 1,   *)
(* and nothing was extracted.                                              *)
C7_ExtractAfterChecks ==
    /\ extracted # {} => StructureOK
    /\ (ZipMode /\ pc \notin {"start", "extract"} /\ ~StructureOK) =>
           /\ extracted = {}
           /\ pc = "done" /\ exitCode = 1
           /\ builds = 0

C7_Witness ==
    /\ pc = "build" /\ extracted # {} /\ extracted = zipf.file_list

(* C8: once main has returned or raised, a scratch directory it created    *)
(* has been removed.                                                       *)
C8_ScratchRemoved ==
    Finished => (temp_dir # "exists" /\ (ZipMode => temp_dir = "removed"))

C8_Witness == pc = "raised" /\ ZipMode /\ temp_dir = "removed"

C10_NonZeroExitShortCircuits ==
    \A i \in 1..Len(rerun.outcomes) :
        (rerun.beh.kind = "exit" /\ rerun.beh.code # 0) =>
            /\ ~rerun.outcomes[i].passed
            /\ rerun.outcomes[i].error =
                   [kind |-> "NonZeroExit", code |-> rerun.beh.code]
            /\ ~rerun.outcomes[i].readOutput
            /\ ~rerun.outcomes[i].readExpected
            /\ ~rerun.outcomes[i].compared

C10_Witness ==
    /\ Len(rerun.outcomes) >= 1
    /\ rerun.beh.kind = "exit" /\ rerun.beh.code = 2
    /\ rerun.beh.out = Some(rerun.expected)
    /\ ~rerun.outcomes[1].passed

(* The categories the command line selects *)
Scope ==
    IF Truthy(args.category) THEN {args.category}
    ELSE IF args.official /\ ~args.unofficial THEN {OFFICIAL}
    ELSE IF args.unofficial /\ ~args.official THEN SeqRange(CATEGORIES)
    ELSE {OFFICIAL} \cup SeqRange(CATEGORIES)

(* C11: only categories of the selected scope are looked up and only their *)
(* tests are handled; when the overall summary is printed every category   *)
(* of the scope has been looked up (the unofficial ones provided the       *)
(* unofficial directory exists).  No selection: official and all           *)
(* unofficial categories; --official: official only; --unofficial:         *)
(* unofficial only; --category c: c only.                                  *)
C11_ScopeRun ==
    /\ visited.cats \subseteq Scope
    /\ lastTest.cat # NONE => lastTest.cat \in Scope
    /\ (queue # <<>> \/ proc = "java") => cur \in Scope
    /\ reported # -1 =>
          visited.cats = (IF visited.unofficial_dir = "absent"
                          THEN Scope \cap {OFFICIAL} ELSE Scope)

C11_Witness ==
    /\ reported # -1 /\ executed >= 2
    /\ Truthy(args.category) /\ args.official
    /\ visited.cats = {args.category}

C11_WitnessAll ==
    /\ reported # -1 /\ executed >= 2
    /\ ~Truthy(args.category) /\ ~args.official /\ ~args.unofficial
    /\ visited.cats = {OFFICIAL} \cup SeqRange(CATEGORIES)

(* C12: within one run every test found to have an expectation file has    *)
(* caused exactly one analyzer invocation, make has been invoked at most   *)
(* once, and a run that got an analyzer and a valid selection does not end *)
(* with discovered tests left over.                                        *)
C12_OneInvocationEach ==
    /\ executed = expectedSeen
    /\ builds <= 1
    /\ (Finished /\ executable_path # NONE /\ CategoryValid) => queue = <<>>

(* C13: a test whose analyzer ran into the timeout is counted as failed   *)
(* with the Timeout outcome and its process is gone; a build that ran into *)
(* the timeout yields no analyzer, no test and exit code 1; a child        *)
(* process exists only while main waits for it; and every run of the       *)
(* harness eventually terminates, with no child process left in flight.    *)
C13_TimeoutsEndTheWait ==
    /\ [](lastTest.timedOut =>
            /\ lastTest.done /\ ~lastTest.passed
            /\ lastTest.error = Err("Timeout")
            /\ proc = NONE /\ failed >= 1)
    /\ [](build.kind = "timeout" =>
            /\ proc = NONE /\ executable_path = NONE /\ executed = 0
            /\ pc = "done" /\ exitCode = 1)
    /\ [](proc # NONE => pc \in {"building", "official_wait", "category_wait"})
    /\ <>(Finished /\ proc = NONE)

C13_Witness ==
    /\ lastTest.timedOut /\ lastTest.done /\ lastTest.error = Err("Timeout")
    /\ proc = NONE /\ failed >= 1 /\ executed >= 1

C13_WitnessBuild ==
    /\ build.kind = "timeout" /\ builds = 1 /\ proc = NONE
    /\ Finished /\ exitCode = 1

(* C14: an archive written from an accepted directory holds ids.txt and    *)
(* ex4/Makefile, is not rejected by verify_zip_contents and is not         *)
(* rejected by the structural checks of the test harness.                  *)
C14_RoundTrip ==
    (pc = "submitter" /\ IsSome(sub.zip)) =>
        /\ IdsName \in sub.zip[1]
        /\ MakefileName \in sub.zip[1]
        /\ sub.verified # "no"
        /\ sub.harness # "no"
====
